---- MODULE Spec2Model ----
(***************************************************************************)
(* Model of the SoundSync coordinator (the final revision of server.js,    *)
(* src/unnamed/part_000): the peer registry, the message router, the       *)
(* playback session with its start-delay and readiness-poll timers, and    *)
(* the drift monitor.                                                      *)
(*                                                                         *)
(* Conventions                                                             *)
(*  - A peer is one WebSocket object `ws`; it connects once and closes     *)
(*    once.  A closed peer can still be referenced by hostClient.          *)
(*  - `closing` holds the sockets whose readyState has left OPEN while     *)
(*    their 'close' event is still to be delivered.                        *)
(*  - Date.now() is the variable `now` (milliseconds).  A handler or a     *)
(*    timer callback runs to completion at one clock reading.              *)
(*  - Timers fire at their deadline: time advances from one pending        *)
(*    deadline to the next (messages may be handled at a reading before    *)
(*    or after the timers due at it).                                      *)
(*  - `budget` is the number of external events (connections, messages,   *)
(*    disconnects) still to be handled; it bounds the behaviours.          *)
(*  - Drift is kept in milliseconds (0.1 s = 100, 0.2 s = 200).            *)
(*  - `sent` lists the messages the last handler/callback handed to the    *)
(*    transport, in order; `last` names that handler and its input.        *)
(***************************************************************************)
EXTENDS Integers, Sequences, FiniteSets

VARIABLES clients, closing, closed, isHost, deviceName, hostClient,
          readyClients, clientDecodingTimes, activePlayback,
          syncCheckTimer, currentMP3Data, timers, now, crashed,
          sent, last, budget, hist

vars == <<clients, closing, closed, isHost, deviceName, hostClient,
          readyClients, clientDecodingTimes, activePlayback,
          syncCheckTimer, currentMP3Data, timers, now, crashed,
          sent, last, budget, hist>>

(***************************************************************************)
(* Bounds of the model                                                     *)
(***************************************************************************)
NumPeers == 3
MaxEvents == 5
MaxQuietEvents == 4
MaxRoleEvents == 8
MaxDispatchEvents == 1
MaxTime == 6700
MaxCycleEvents == 3
MaxCycleTime == 12700

Peers == 1..NumPeers
DeviceNames == {"kitchen", "hall"}
ClientIds == {"c1"}
DecodingTimes == {2500}
Drifts == {300}

(***************************************************************************)
(* Program constants                                                       *)
(***************************************************************************)
LongLead == 8000
ShortLead == 1000
SafetyMargin == 2000
StartDelay == 200
PollInterval == 500
DecodeThreshold == 2000
MaxDecodeBuffer == 3000
MinPayloadLength == 100
SyncCheckPeriod == 5000
ResponseWindow == 1000
DriftThreshold == 100
SpreadThreshold == 200

(***************************************************************************)
(* JavaScript values                                                       *)
(***************************************************************************)
Null == <<>>
Some(x) == <<x>>
NullPeer == 0
NullTimer == 0
NullTime == -1

Max(a, b) == IF a >= b THEN a ELSE b
Min(a, b) == IF a <= b THEN a ELSE b
Abs(a) == IF a >= 0 THEN a ELSE -a

\* Date.now().toString(): the decimal string of the clock reading
ToString(n) == [str |-> n]

Payloads == {[data |-> "songA", length |-> 4096],
             [data |-> "tiny",  length |-> 50]}

RECURSIVE SetToSeq(_)
SetToSeq(S) ==
  IF S = {} THEN <<>>
  ELSE LET m == CHOOSE x \in S : \A y \in S : x <= y
       IN <<m>> \o SetToSeq(S \ {m})

(***************************************************************************)
(* Initial state: the module-level declarations, lines 44-53               *)
(***************************************************************************)
InitWith(b) ==
  /\ clients = {}
  /\ closing = {}
  /\ closed = {}
  /\ isHost = [p \in Peers |-> "undefined"]
  /\ deviceName = [p \in Peers |-> "undefined"]
  /\ hostClient = NullPeer
  /\ readyClients = {}
  /\ clientDecodingTimes = <<>>
  /\ activePlayback = Null
  /\ syncCheckTimer = NullTimer
  /\ currentMP3Data = Null
  /\ timers = {}
  /\ now = 0
  /\ crashed = FALSE
  /\ sent = <<>>
  /\ last = [op |-> "init"]
  /\ budget = b
  /\ hist = [joins |-> <<>>, hostInbox |-> <<>>, retired |-> {}, host |-> NullPeer,
             ready |-> {}, ended |-> {}, samples |-> <<>>,
             reported |-> {}]

Init == InitWith(MaxEvents)

(***************************************************************************)
(* Sending                                                                 *)
(***************************************************************************)
\* client.readyState === WebSocket.OPEN
IsOpen(p) == p \in clients /\ p \notin closing

Msg(p, m) == [to |-> p, msg |-> m]

\* the peers a broadcast reaches, in iteration order
BroadcastTargets(skipHost) ==
  SetToSeq({c \in clients : IsOpen(c) /\ ~(skipHost /\ isHost[c] = "true")})

\* broadcastToClients(message, skipHost)
broadcastToClients(m, skipHost) ==
  LET t == BroadcastTargets(skipHost)
  IN [i \in 1..Len(t) |-> Msg(t[i], m)]

\* if (hostClient && hostClient.readyState === WebSocket.OPEN) hostClient.send(m)
SendToHostIfOpen(m) ==
  IF hostClient # NullPeer /\ IsOpen(hostClient) THEN <<Msg(hostClient, m)>> ELSE <<>>

(***************************************************************************)
(* History (not program state): what the step just taken adds to           *)
(*  - joins: the deviceNames of the join messages handled while the        *)
(*    current host reference was set and open, in order;                   *)
(*  - hostInbox: the deviceNames of the client-joined messages handed to   *)
(*    the transport for that host, in order;                               *)
(*  - retired: the ids of the sessions a payload play-request replaced     *)
(*    while they were Playing;                                             *)
(*  - host: the peer whose host role-claim is the latest one, until it     *)
(*    claims the listener role or disconnects;                             *)
(*  - ready: the peers that sent a client-ready quoting the id of the      *)
(*    active session, since that session was created;                      *)
(*  - ended: the ids of the sessions that were active when a later         *)
(*    play-request was handled (an id a new session takes again leaves);   *)
(*  - samples: the decode-latency samples reported, per client id, since   *)
(*    the active session was created;                                      *)
(*  - reported: the client ids whose position-report for the active        *)
(*    session was recorded since the drift monitor last ran                *)
(*    checkPlaybackSync.                                                   *)
(* joins and hostInbox restart when the host reference changes.            *)
(***************************************************************************)
JoinedNames(out, host) ==
  LET picked == SelectSeq(out, LAMBDA m : m.to = host /\ m.msg.type = "client-joined")
  IN [i \in 1..Len(picked) |-> picked[i].msg.deviceName]

IsPlaying(session) == session # Null /\ session[1].startedAt # NullTime

Logged ==
  hist' =
    [joins |->
       IF hostClient' # hostClient THEN <<>>
       ELSE IF last'.op = "join" /\ hostClient # NullPeer /\ IsOpen(hostClient)
            THEN Append(hist.joins, last'.deviceName)
            ELSE hist.joins,
     hostInbox |->
       IF hostClient' # hostClient THEN <<>>
       ELSE hist.hostInbox \o JoinedNames(sent', hostClient),
     retired |->
       IF last'.op = "play" /\ activePlayback' # activePlayback /\ IsPlaying(activePlayback)
       THEN hist.retired \cup {activePlayback[1].id}
       ELSE hist.retired,
     host |->
       IF last'.op = "host" THEN last'.peer
       ELSE IF last'.op \in {"join", "close"} /\ last'.peer = hist.host THEN NullPeer
       ELSE hist.host,
     ready |->
       IF last'.op = "stop" \/ (last'.op = "play" /\ activePlayback' # activePlayback)
       THEN {}
       ELSE IF last'.op = "client-ready" /\ activePlayback # Null
                 /\ last'.playId = activePlayback[1].id
            THEN hist.ready \cup {last'.peer}
            ELSE hist.ready,
     ended |->
       IF last'.op = "play" /\ activePlayback # Null
       THEN (hist.ended \cup {activePlayback[1].id})
              \ (IF last'.mp3Data # Null /\ last'.mp3Data[1].length > 0
                 THEN {activePlayback'[1].id} ELSE {})
       ELSE hist.ended,
     samples |->
       IF last'.op = "play" /\ activePlayback' # activePlayback THEN <<>>
       ELSE IF last'.op = "decoding-stats" /\ activePlayback # Null
            THEN [c \in DOMAIN hist.samples \cup {last'.clientId} |->
                    IF c = last'.clientId
                    THEN clientDecodingTimes'[c] ELSE hist.samples[c]]
            ELSE hist.samples,
     reported |->
       IF last'.op = "checkPlaybackSync" \/ activePlayback' = Null
            \/ (activePlayback # Null /\ activePlayback'[1].id # activePlayback[1].id)
       THEN {}
       ELSE IF last'.op = "playback-status" /\ activePlayback # Null
                 /\ last'.playbackId = activePlayback[1].id
            THEN hist.reported \cup {last'.clientId}
            ELSE hist.reported]

(***************************************************************************)
(* Peer registry                                                           *)
(***************************************************************************)
RegistryUnchanged ==
  UNCHANGED <<clients, closing, closed, isHost, deviceName, hostClient>>
SessionUnchanged ==
  UNCHANGED <<readyClients, clientDecodingTimes, activePlayback,
              syncCheckTimer, currentMP3Data, timers>>

\* one more external event (connection, message, disconnect) is handled
Handled == budget > 0 /\ budget' = budget - 1

\* wss.on('connection')
Connect(p) ==
  /\ ~crashed
  /\ Handled
  /\ p \notin clients /\ p \notin closed
  /\ clients' = clients \cup {p}
  /\ sent' = <<>>
  /\ last' = [op |-> "connect", peer |-> p]
  /\ UNCHANGED <<closing, closed, isHost, deviceName, hostClient, now, crashed>>
  /\ SessionUnchanged
  /\ Logged

\* the host reference and role flags after ws claims host
AssignHost(p) ==
  /\ hostClient' = p
  /\ isHost' = [isHost EXCEPT ![p] = "true"]

\* case 'host'
HostClaim(p) ==
  /\ ~crashed
  /\ IsOpen(p)
  /\ Handled
  /\ AssignHost(p)
  /\ sent' = <<Msg(p, [type |-> "host-confirmed", clientCount |-> Cardinality(clients)])>>
  /\ last' = [op |-> "host", peer |-> p, prevHost |-> hostClient]
  /\ UNCHANGED <<clients, closing, closed, deviceName, now, crashed>>
  /\ SessionUnchanged
  /\ Logged

\* a join notification that carries the stored name of the host socket instead of
\* the joining peer's data.deviceName
JoinNotifyHostName(name, throws) ==
  IF hostClient = NullPeer THEN [out |-> <<>>, thrown |-> FALSE]
  ELSE IF IsOpen(hostClient)
       THEN [out |-> <<Msg(hostClient, [type |-> "client-joined",
                                        deviceName |-> deviceName[hostClient]])>>,
             thrown |-> FALSE]
       ELSE [out |-> <<>>, thrown |-> throws]

\* hostClient.send(client-joined) in case 'join': no readyState check.  On a closed
\* socket ws either drops the message or throws, depending on its version.
JoinNotify(name, throws) ==
  IF hostClient = NullPeer THEN [out |-> <<>>, thrown |-> FALSE]
  ELSE IF IsOpen(hostClient)
       THEN [out |-> <<Msg(hostClient, [type |-> "client-joined", deviceName |-> name])>>,
             thrown |-> FALSE]
       ELSE [out |-> <<>>, thrown |-> throws]

\* case 'join'
Join(p, name, throws) ==
  /\ ~crashed
  /\ IsOpen(p)
  /\ Handled
  /\ isHost' = [isHost EXCEPT ![p] = "false"]
  /\ deviceName' = [deviceName EXCEPT ![p] = name]
  /\ LET n == JoinNotify(name, throws)
     IN sent' = IF n.thrown THEN n.out
                ELSE n.out \o <<Msg(p, [type |-> "join-confirmed"])>>
  /\ last' = [op |-> "join", peer |-> p, deviceName |-> name]
  /\ UNCHANGED <<clients, closing, closed, hostClient, now, crashed>>
  /\ SessionUnchanged
  /\ Logged

\* the connection of ws ends: its readyState leaves OPEN; the 'close' event follows
SocketCloses(p) ==
  /\ ~crashed
  /\ Handled
  /\ IsOpen(p)
  /\ closing' = closing \cup {p}
  /\ sent' = <<>>
  /\ last' = [op |-> "closing", peer |-> p]
  /\ UNCHANGED <<clients, closed, isHost, deviceName, hostClient, now, crashed>>
  /\ SessionUnchanged
  /\ Logged

\* ws.on('close')
Close(p, throws) ==
  /\ ~crashed
  /\ Handled
  /\ p \in clients
  /\ clients' = clients \ {p}
  /\ closing' = closing \ {p}
  /\ closed' = closed \cup {p}
  /\ hostClient' = IF isHost[p] = "true" THEN NullPeer ELSE hostClient
  /\ LET notify == isHost[p] # "true" /\ hostClient' # NullPeer
                   /\ deviceName[p] # "undefined"
         target == hostClient'
         open == target \in clients' /\ target \notin closing'
     IN /\ sent' = IF notify /\ open
                   THEN <<Msg(target, [type |-> "client-left", deviceName |-> deviceName[p]])>>
                   ELSE <<>>
        /\ crashed' = (notify /\ ~open /\ throws)
  /\ last' = [op |-> "close", peer |-> p]
  /\ UNCHANGED <<isHost, deviceName, now>>
  /\ SessionUnchanged
  /\ Logged

(***************************************************************************)
(* Message router: forwarding cases and discarded messages                 *)
(***************************************************************************)
\* case 'prepare-audio'
PrepareAudio(p) ==
  /\ ~crashed
  /\ IsOpen(p)
  /\ Handled
  /\ sent' = broadcastToClients([type |-> "prepare-audio", serverTime |-> now], TRUE)
  /\ last' = [op |-> "prepare-audio"]
  /\ UNCHANGED <<now, crashed>>
  /\ RegistryUnchanged
  /\ SessionUnchanged
  /\ Logged

\* case 'clock-sync' with data.clientId: the for loop that sends to the first
\* open client that is neither flagged host nor the host reference, then breaks
TargetedProbe(m) ==
  LET c == SetToSeq({x \in clients :
                      isHost[x] # "true" /\ x # hostClient /\ IsOpen(x)})
  IN IF c = <<>> THEN <<>> ELSE <<Msg(c[1], m)>>

\* case 'clock-sync'; clientId is Null when the message carries none
ClockSync(p, clientId) ==
  /\ ~crashed
  /\ IsOpen(p)
  /\ Handled
  /\ LET m == [type |-> "clock-sync", clientId |-> clientId]
     IN sent' = IF clientId # Null THEN TargetedProbe(m)
                ELSE broadcastToClients(m, TRUE)
  /\ last' = [op |-> "clock-sync", targeted |-> clientId # Null]
  /\ UNCHANGED <<now, crashed>>
  /\ RegistryUnchanged
  /\ SessionUnchanged
  /\ Logged

\* case 'clock-sync-request' and case 'ping': forwarded to the host if it is open
ForwardToHost(p, type) ==
  /\ ~crashed
  /\ IsOpen(p)
  /\ Handled
  /\ sent' = SendToHostIfOpen([type |-> type])
  /\ last' = [op |-> type]
  /\ UNCHANGED <<now, crashed>>
  /\ RegistryUnchanged
  /\ SessionUnchanged
  /\ Logged

\* case 'pong': forwarded to every open client not flagged host
Pong(p) ==
  /\ ~crashed
  /\ IsOpen(p)
  /\ Handled
  /\ LET c == SetToSeq({x \in clients : isHost[x] # "true" /\ IsOpen(x)})
     IN sent' = [i \in 1..Len(c) |-> Msg(c[i], [type |-> "pong"])]
  /\ last' = [op |-> "pong"]
  /\ UNCHANGED <<now, crashed>>
  /\ RegistryUnchanged
  /\ SessionUnchanged
  /\ Logged

\* the types the switch has a case for
HandledTypes ==
  {"host", "join", "prepare-audio", "decoding-stats", "play", "client-ready",
   "playback-status", "stop", "clock-sync", "clock-sync-request", "ping", "pong"}

\* message texts that reach no case of the switch
RawMessages == {"{not json", "null", "{}", "{\"type\":\"bogus\"}"}

\* JSON.parse(message) followed by data.type: the case label the switch looks for,
\* or the exception raised on the way
TypeOfMessage(raw) ==
  CASE raw = "{not json" -> [thrown |-> "SyntaxError", type |-> "undefined"]
    [] raw = "null" -> [thrown |-> "TypeError", type |-> "undefined"]
    [] raw = "{}" -> [thrown |-> "none", type |-> "undefined"]
    [] raw = "{\"type\":\"bogus\"}" -> [thrown |-> "none", type |-> "bogus"]

\* a handler whose JSON.parse stands before the try block
CaughtUnlessSyntaxError(raw) == TypeOfMessage(raw).thrown # "SyntaxError"

\* try { ... } catch (error) { console.error(...) } encloses the whole handler
Caught(raw) == TRUE

\* ws.on('message') for a text that cannot be parsed or has no case in the switch
Receive(p, raw) ==
  /\ ~crashed
  /\ IsOpen(p)
  /\ Handled
  /\ LET d == TypeOfMessage(raw)
     IN /\ d.thrown # "none" \/ d.type \notin HandledTypes
        /\ crashed' = (d.thrown # "none" /\ ~Caught(raw))
  /\ sent' = <<>>
  /\ last' = [op |-> "discard", raw |-> raw]
  /\ UNCHANGED now
  /\ RegistryUnchanged
  /\ SessionUnchanged
  /\ Logged

(***************************************************************************)
(* Timers: setTimeout / setInterval handles                                *)
(***************************************************************************)
TimerIds == {t.id : t \in timers}

\* a handle no pending timer and no stored reference uses
FreshTimer == CHOOSE n \in 1..(Cardinality(timers) + 2) :
                n \notin TimerIds /\ n # syncCheckTimer

Timer(id, kind, due, pid, sched, expected) ==
  [id |-> id, kind |-> kind, due |-> due, playbackId |-> pid,
   scheduledTime |-> sched, expectedPosition |-> expected]

\* clearTimeout(handle): a no-op for a handle that already fired
ClearTimer(ts, handle) == {t \in ts : t.id # handle}

Due(t) == t \in timers /\ t.due <= now

(***************************************************************************)
(* Playback session                                                        *)
(***************************************************************************)
\* if (data.mp3Data): absent, null and the empty string are falsy
HasPayload(mp3Data) == mp3Data # Null /\ mp3Data[1].length > 0

\* the payload branch scheduling with the test-tone lead
ProvisionalStartShortLead == now + ShortLead

\* playCommandBase.scheduledTime = Date.now() + 8000
ProvisionalStart == now + LongLead

\* data.scheduledTime = Date.now() + 1000
TestToneStart == now + ShortLead

\* const playbackId = Date.now().toString()
NewPlaybackId == ToString(now)

\* case 'play', payload branch
PlayPayload(p, mp3Data) ==
  /\ currentMP3Data' = mp3Data
  /\ sent' = broadcastToClients([type |-> "sync-verification",
                                 playId |-> NewPlaybackId,
                                 serverTime |-> now], TRUE)
  /\ activePlayback' = Some([id |-> NewPlaybackId,
                             startTime |-> ProvisionalStart,
                             clientSyncStates |-> <<>>,
                             startedAt |-> NullTime])
  /\ timers' = timers \cup {Timer(FreshTimer, "startDelay", now + StartDelay,
                                  NewPlaybackId, ProvisionalStart, 0)}

\* case 'play', test-tone branch
PlayTestTone(p) ==
  /\ sent' = broadcastToClients([type |-> "play", serverTime |-> now,
                                 scheduledTime |-> TestToneStart], TRUE)
  /\ UNCHANGED <<currentMP3Data, activePlayback, timers>>

\* who may originate a play-request or a stop-request: the code checks nothing
MayControl(p) == TRUE

\* case 'play'
Play(p, mp3Data) ==
  /\ ~crashed
  /\ IsOpen(p)
  /\ MayControl(p)
  /\ Handled
  /\ readyClients' = {}
  /\ clientDecodingTimes' = <<>>
  /\ IF HasPayload(mp3Data) THEN PlayPayload(p, mp3Data) ELSE PlayTestTone(p)
  /\ last' = [op |-> "play", peer |-> p, mp3Data |-> mp3Data]
  /\ UNCHANGED <<syncCheckTimer, now, crashed>>
  /\ RegistryUnchanged
  /\ Logged

\* the timers a stop-request cancels: only the one syncCheckTimer refers to
StopCancels(ts) == ClearTimer(ts, syncCheckTimer)

\* case 'stop'
Stop(p) ==
  /\ ~crashed
  /\ IsOpen(p)
  /\ Handled
  /\ MayControl(p)
  /\ sent' = broadcastToClients([type |-> "stop"], TRUE)
  /\ activePlayback' = Null
  /\ currentMP3Data' = Null
  /\ timers' = StopCancels(timers)
  /\ syncCheckTimer' = NullTimer
  /\ last' = [op |-> "stop", peer |-> p,
              session |-> IF activePlayback = Null THEN Null
                          ELSE Some(activePlayback[1].id)]
  /\ UNCHANGED <<readyClients, clientDecodingTimes, now, crashed>>
  /\ RegistryUnchanged
  /\ Logged

\* the extra delay for the slowest reported decoder, lines 221-234
DecodeBuffer(times) ==
  LET vals == {times[c] : c \in DOMAIN times}
      maxDecodingTime == IF vals = {} THEN 0
                         ELSE Max(0, CHOOSE v \in vals : \A w \in vals : v >= w)
  IN IF maxDecodingTime > DecodeThreshold
     THEN Min(MaxDecodeBuffer, maxDecodingTime - DecodeThreshold)
     ELSE 0

\* startPeriodicSyncChecks(): the timer set and the stored handle afterwards
startPeriodicSyncChecks(ts) ==
  [timers |-> ClearTimer(ts, syncCheckTimer)
                \cup {Timer(FreshTimer, "checkPlaybackSync", now + SyncCheckPeriod,
                            ToString(0), 0, 0)},
   handle |-> FreshTimer]

HostPlay(t, sched) ==
  [type |-> "host-play", scheduledTime |-> sched, playbackId |-> t.playbackId,
   serverTime |-> now]

\* the 200 ms setTimeout callback, lines 205-312
StartDelayFire(t) ==
  /\ ~crashed
  /\ Due(t) /\ t.kind = "startDelay"
  /\ IF Cardinality(clients) > 1
     THEN /\ timers' = (timers \ {t})
                         \cup {Timer(FreshTimer, "waitForSync", now + PollInterval,
                                     t.playbackId, t.scheduledTime, 0)}
          /\ sent' = <<>>
          /\ UNCHANGED <<activePlayback, crashed>>
     ELSE /\ timers' = timers \ {t}
          /\ IF activePlayback = Null
             THEN \* activePlayback.startedAt = ... on null: TypeError in a timer callback
                  /\ crashed' = TRUE
                  /\ sent' = <<>>
                  /\ UNCHANGED activePlayback
             ELSE /\ activePlayback' = Some([activePlayback[1] EXCEPT !.startedAt = now])
                  /\ sent' = SendToHostIfOpen(HostPlay(t, t.scheduledTime))
                  /\ UNCHANGED crashed
  /\ last' = [op |-> "startDelay"]
  /\ UNCHANGED <<readyClients, clientDecodingTimes, syncCheckTimer, currentMP3Data,
                 budget, now>>
  /\ RegistryUnchanged
  /\ Logged

\* a readiness test without the deadline clause
ReadyToProceedNoDeadline(t) ==
  Cardinality(readyClients) >= Cardinality(clients) - 1

\* the readiness test of the poll, line 217
ReadyToProceed(t) ==
  LET readyCount == Cardinality(readyClients)
      clientCount == Cardinality(clients) - 1
  IN readyCount >= clientCount \/ now > t.scheduledTime - SafetyMargin

RECURSIVE OpenPrefix(_)
\* the clients of a sequence up to, and without, the first whose socket is not open
OpenPrefix(cs) ==
  IF cs = <<>> \/ ~IsOpen(Head(cs)) THEN <<>> ELSE <<Head(cs)>> \o OpenPrefix(Tail(cs))

\* a play-command loop with neither the readyState test nor the try/catch: the
\* send to the first socket that is not open throws and ends the loop
PlayCommandsUnguarded(t, sched) ==
  LET targets == OpenPrefix(SetToSeq({c \in clients : isHost[c] # "true"}))
  IN [i \in 1..Len(targets) |->
        Msg(targets[i], [type |-> "play", playbackId |-> t.playbackId,
                         scheduledTime |-> sched, mp3Data |-> currentMP3Data])]

\* the play-command loop, lines 258-273: a send, inside try/catch, to every client
\* that is open and not flagged host
PlayCommands(t, sched) ==
  LET targets == SetToSeq({c \in clients : IsOpen(c) /\ isHost[c] # "true"})
  IN [i \in 1..Len(targets) |->
        Msg(targets[i], [type |-> "play", playbackId |-> t.playbackId,
                         scheduledTime |-> sched, mp3Data |-> currentMP3Data])]

\* if (!currentMP3Data || currentMP3Data.length < 100) return
PayloadLost == currentMP3Data = Null \/ currentMP3Data[1].length < MinPayloadLength

\* the 500 ms setInterval callback (waitForSync), lines 210-294
WaitForSyncFire(t) ==
  /\ ~crashed
  /\ Due(t) /\ t.kind = "waitForSync"
  /\ IF ~ReadyToProceed(t)
     THEN /\ timers' = (timers \ {t}) \cup {[t EXCEPT !.due = t.due + PollInterval]}
          /\ sent' = <<>>
          /\ UNCHANGED <<activePlayback, syncCheckTimer, crashed>>
     ELSE LET sched == t.scheduledTime + DecodeBuffer(clientDecodingTimes)
          IN IF activePlayback = Null
             THEN \* activePlayback.startTime = ... on null: TypeError in a timer callback
                  /\ crashed' = TRUE
                  /\ timers' = timers \ {t}
                  /\ sent' = <<>>
                  /\ UNCHANGED <<activePlayback, syncCheckTimer>>
             ELSE /\ activePlayback' = Some([activePlayback[1] EXCEPT
                                               !.startTime = sched, !.startedAt = now])
                  /\ UNCHANGED crashed
                  /\ IF PayloadLost
                     THEN /\ timers' = timers \ {t}
                          /\ sent' = <<>>
                          /\ UNCHANGED syncCheckTimer
                     ELSE LET s == startPeriodicSyncChecks(timers \ {t})
                          IN /\ sent' = PlayCommands(t, sched)
                                          \o SendToHostIfOpen(HostPlay(t, sched))
                             /\ timers' = s.timers
                             /\ syncCheckTimer' = s.handle
  /\ last' = [op |-> "waitForSync"]
  /\ UNCHANGED <<readyClients, clientDecodingTimes, currentMP3Data, budget, now>>
  /\ RegistryUnchanged
  /\ Logged

(***************************************************************************)
(* Reports from peers                                                      *)
(***************************************************************************)
\* Map.set(key, value)
MapSet(m, k, v) == [c \in DOMAIN m \cup {k} |-> IF c = k THEN v ELSE m[c]]

ReadyState == [hasDrift |-> FALSE, drift |-> 0]
DriftState(d) == [hasDrift |-> TRUE, drift |-> d]

\* case 'client-ready' (data.clientId and data.syncInfo present)
ClientReady(p, clientId, playId) ==
  /\ ~crashed
  /\ IsOpen(p)
  /\ Handled
  /\ readyClients' = readyClients \cup {clientId}
  /\ activePlayback' =
       IF activePlayback # Null /\ playId = activePlayback[1].id
       THEN Some([activePlayback[1] EXCEPT
                    !.clientSyncStates = MapSet(@, clientId, ReadyState)])
       ELSE activePlayback
  /\ sent' = SendToHostIfOpen([type |-> "client-sync-status", clientId |-> clientId,
                               ready |-> TRUE,
                               readyCount |-> Cardinality(readyClients'),
                               totalClients |-> Cardinality(clients) - 1])
  /\ last' = [op |-> "client-ready", peer |-> p, clientId |-> clientId,
              playId |-> playId]
  /\ UNCHANGED <<clientDecodingTimes, syncCheckTimer, currentMP3Data, timers,
                 now, crashed>>
  /\ RegistryUnchanged
  /\ Logged

\* case 'decoding-stats' (data.clientId present)
DecodingStats(p, clientId, decodingTime) ==
  /\ ~crashed
  /\ IsOpen(p)
  /\ Handled
  /\ clientDecodingTimes' = MapSet(clientDecodingTimes, clientId, decodingTime)
  /\ sent' = <<>>
  /\ last' = [op |-> "decoding-stats", clientId |-> clientId]
  /\ UNCHANGED <<readyClients, activePlayback, syncCheckTimer, currentMP3Data, timers,
                 now, crashed>>
  /\ RegistryUnchanged
  /\ Logged

\* the guard of case 'playback-status', line 357
StatusAccepted(playbackId) ==
  activePlayback # Null /\ playbackId = activePlayback[1].id

\* case 'playback-status' (data.clientId and data.playbackId present)
PlaybackStatus(p, clientId, playbackId, drift) ==
  /\ ~crashed
  /\ IsOpen(p)
  /\ Handled
  /\ activePlayback' =
       IF StatusAccepted(playbackId)
       THEN Some([activePlayback[1] EXCEPT
                    !.clientSyncStates = MapSet(@, clientId, DriftState(drift))])
       ELSE activePlayback
  /\ sent' = <<>>
  /\ last' = [op |-> "playback-status", clientId |-> clientId,
              playbackId |-> playbackId]
  /\ UNCHANGED <<readyClients, clientDecodingTimes, syncCheckTimer, currentMP3Data,
                 timers, now, crashed>>
  /\ RegistryUnchanged
  /\ Logged

(***************************************************************************)
(* Drift monitor                                                           *)
(***************************************************************************)
\* checkPlaybackSync(), lines 480-496
CheckPlaybackSyncFire(t) ==
  /\ ~crashed
  /\ Due(t) /\ t.kind = "checkPlaybackSync"
  /\ IF activePlayback = Null \/ activePlayback[1].startedAt = NullTime
     THEN /\ timers' = timers \ {t}
          /\ sent' = <<>>
     ELSE LET elapsedMs == now - activePlayback[1].startedAt
          IN /\ sent' = broadcastToClients(
                          [type |-> "request-playback-status",
                           playbackId |-> activePlayback[1].id,
                           expectedPosition |-> elapsedMs,
                           serverTime |-> now], TRUE)
             /\ timers' = (timers \ {t})
                            \cup {Timer(FreshTimer, "driftResponse", now + ResponseWindow,
                                        ToString(0), 0, elapsedMs)}
  /\ last' = [op |-> "checkPlaybackSync"]
  /\ UNCHANGED <<readyClients, clientDecodingTimes, activePlayback, syncCheckTimer,
                 currentMP3Data, budget, now, crashed>>
  /\ RegistryUnchanged
  /\ Logged

\* the samples the aggregation loop reads: entries whose drift is defined
DriftSamples(states) == {c \in DOMAIN states : states[c].hasDrift}

RECURSIVE DriftFold(_, _, _)
\* the loop of lines 503-515 over the reporting clients cs, from accumulator acc
DriftFold(states, cs, acc) ==
  IF cs = {} THEN acc
  ELSE LET c == CHOOSE x \in cs : TRUE
           d == states[c].drift
       IN DriftFold(states, cs \ {c},
                    [totalDrift |-> acc.totalDrift + d,
                     clientCount |-> acc.clientCount + 1,
                     maxDrift |-> Max(acc.maxDrift, d),
                     minDrift |-> Min(acc.minDrift, d)])

\* let totalDrift = 0, clientCount = 0, maxDrift = 0, minDrift = 0
DriftStart == [totalDrift |-> 0, clientCount |-> 0, maxDrift |-> 0, minDrift |-> 0]

DriftStats(states) == DriftFold(states, DriftSamples(states), DriftStart)

\* clientCount > 0 && (Math.abs(avgDrift) > 0.1 || driftSpread > 0.2)
NeedsCorrection(states) ==
  LET a == DriftStats(states)
  IN /\ a.clientCount > 0
     /\ \/ Abs(a.totalDrift) > DriftThreshold * a.clientCount
        \/ a.maxDrift - a.minDrift > SpreadThreshold

\* the 1 s response-window callback, lines 499-540
DriftResponseFire(t) ==
  /\ ~crashed
  /\ Due(t) /\ t.kind = "driftResponse"
  /\ IF activePlayback = Null
     THEN /\ timers' = timers \ {t}
          /\ sent' = <<>>
          /\ UNCHANGED syncCheckTimer
     ELSE LET states == activePlayback[1].clientSyncStates
              a == DriftStats(states)
          IN /\ sent' = IF NeedsCorrection(states)
                        THEN broadcastToClients(
                               [type |-> "drift-correction",
                                playbackId |-> activePlayback[1].id,
                                avgDrift |-> <<a.totalDrift, a.clientCount>>,
                                expectedPosition |-> t.expectedPosition,
                                serverTime |-> now], TRUE)
                        ELSE <<>>
             /\ timers' = (timers \ {t})
                            \cup {Timer(FreshTimer, "checkPlaybackSync",
                                        now + SyncCheckPeriod, ToString(0), 0, 0)}
             /\ syncCheckTimer' = FreshTimer
  /\ last' = [op |-> "driftResponse"]
  /\ UNCHANGED <<readyClients, clientDecodingTimes, activePlayback, currentMP3Data,
                 budget, now, crashed>>
  /\ RegistryUnchanged
  /\ Logged

(***************************************************************************)
(* The clock                                                               *)
(***************************************************************************)
\* the nearest pending deadline
NextDeadline ==
  LET t == CHOOSE x \in timers : \A y \in timers : x.due <= y.due
  IN t.due

\* time passes until the next timer is due, up to the horizon `limit`
Tick(limit) ==
  /\ ~crashed
  /\ timers # {}
  /\ \A t \in timers : t.due > now
  /\ NextDeadline <= limit
  /\ now' = NextDeadline
  /\ sent' = <<>>
  /\ last' = [op |-> "tick"]
  /\ UNCHANGED <<crashed, budget>>
  /\ SessionUnchanged
  /\ RegistryUnchanged
  /\ Logged

(***************************************************************************)
(* Inputs and the next-state relation                                      *)
(***************************************************************************)
PayloadInputs == {Null} \cup {Some(x) : x \in Payloads}

\* session ids a peer may quote: the active one, one of a pending timer, a stale one
PlaybackIdInputs ==
  {ToString(0 - 1)}
    \cup (IF activePlayback = Null THEN {} ELSE {activePlayback[1].id})
    \cup {t.playbackId : t \in {x \in timers : x.kind \in {"startDelay", "waitForSync"}}}

\* data.clientId of a clock-sync message, possibly absent
ProbeTargets == {Null, Some("c1")}

Next ==
  \/ \E p \in Peers : Connect(p)
  \/ \E p \in Peers : HostClaim(p)
  \/ \E p \in Peers, th \in BOOLEAN : Join(p, "kitchen", th)
  \/ \E p \in Peers : SocketCloses(p)
  \/ \E p \in Peers, th \in BOOLEAN : Close(p, th)
  \/ \E p \in Peers, m \in PayloadInputs : Play(p, m)
  \/ \E p \in Peers : Stop(p)
  \/ \E p \in Peers, c \in ClientIds, i \in PlaybackIdInputs : ClientReady(p, c, i)
  \/ \E p \in Peers, c \in ClientIds, d \in DecodingTimes : DecodingStats(p, c, d)
  \/ \E p \in Peers, c \in ClientIds, i \in PlaybackIdInputs, d \in Drifts :
        PlaybackStatus(p, c, i, d)
  \/ \E p \in Peers : PrepareAudio(p)
  \/ \E p \in Peers, c \in ProbeTargets : ClockSync(p, c)
  \/ \E p \in Peers, ty \in {"clock-sync-request", "ping"} : ForwardToHost(p, ty)
  \/ \E p \in Peers : Pong(p)
  \/ \E p \in Peers, raw \in RawMessages : Receive(p, raw)
  \/ \E t \in timers : StartDelayFire(t)
  \/ \E t \in timers : WaitForSyncFire(t)
  \/ \E t \in timers : CheckPlaybackSyncFire(t)
  \/ \E t \in timers : DriftResponseFire(t)
  \/ Tick(MaxTime)

Spec == Init /\ [][Next]_vars

(***************************************************************************)
(* Restricted specifications                                               *)
(***************************************************************************)
\* the peer registry alone: connects, role claims and disconnects
NextRegistry ==
  \/ \E p \in Peers : Connect(p)
  \/ \E p \in Peers : HostClaim(p)
  \/ \E p \in Peers, n \in DeviceNames, th \in BOOLEAN : Join(p, n, th)
  \/ \E p \in Peers : SocketCloses(p)
  \/ \E p \in Peers, th \in BOOLEAN : Close(p, th)

SpecRegistry == Init /\ [][NextRegistry]_vars

\* the peer registry and the forwarding cases of the router
NextRouting ==
  \/ NextRegistry
  \/ \E p \in Peers : PrepareAudio(p)
  \/ \E p \in Peers, c \in ProbeTargets : ClockSync(p, c)
  \/ \E p \in Peers, ty \in {"clock-sync-request", "ping"} : ForwardToHost(p, ty)
  \/ \E p \in Peers : Pong(p)
  \/ \E p \in Peers, raw \in RawMessages : Receive(p, raw)

SpecRouting == Init /\ [][NextRouting]_vars

\* the peer registry over longer behaviours
SpecRoles == InitWith(MaxRoleEvents) /\ [][NextRegistry]_vars

\* sessions during which no peer ever reports (readiness, decode latency, position)
\* and no peer uses the forwarding cases; a disconnect is delivered at once
NextNoReports ==
  \/ \E p \in Peers : Connect(p)
  \/ \E p \in Peers : HostClaim(p)
  \/ \E p \in Peers, th \in BOOLEAN : Join(p, "kitchen", th)
  \/ \E p \in Peers, th \in BOOLEAN : Close(p, th)
  \/ \E p \in Peers, m \in PayloadInputs : Play(p, m)
  \/ \E p \in Peers : Stop(p)
  \/ \E p \in Peers, raw \in RawMessages : Receive(p, raw)
  \/ \E t \in timers : StartDelayFire(t)
  \/ \E t \in timers : WaitForSyncFire(t)
  \/ \E t \in timers : CheckPlaybackSyncFire(t)
  \/ \E t \in timers : DriftResponseFire(t)
  \/ Tick(MaxTime)

SpecNoReports == InitWith(MaxQuietEvents) /\ [][NextNoReports]_vars

\* the same sessions under the scheduling of the event loop: a timer that is due
\* runs, and the clock reaches the next pending deadline
TimerFires ==
  \/ \E t \in timers : StartDelayFire(t)
  \/ \E t \in timers : WaitForSyncFire(t)
  \/ \E t \in timers : CheckPlaybackSyncFire(t)
  \/ \E t \in timers : DriftResponseFire(t)

SpecLive ==
  /\ InitWith(MaxQuietEvents)
  /\ [][NextNoReports]_vars
  /\ WF_vars(TimerFires)
  /\ WF_vars(Tick(MaxTime))

\* sessions created from two different valid payloads, with no report from any
\* peer: a play-request handled at clock reading 0 submits songA, a later one
\* songB, so that the id of a session tells the payload it was created with
PayloadAt(t) == IF t = 0 THEN [data |-> "songA", length |-> 4096]
                         ELSE [data |-> "songB", length |-> 2048]

NextPayloads ==
  \/ \E p \in Peers : Connect(p)
  \/ \E p \in Peers : HostClaim(p)
  \/ \E p \in Peers, th \in BOOLEAN : Join(p, "kitchen", th)
  \/ \E p \in Peers : Play(p, Some(PayloadAt(now)))
  \/ \E p \in Peers : Stop(p)
  \/ \E t \in timers : StartDelayFire(t)
  \/ \E t \in timers : WaitForSyncFire(t)
  \/ Tick(MaxTime)

SpecPayloads == InitWith(MaxQuietEvents) /\ [][NextPayloads]_vars

\* the readiness wait alone: every peer connected, any registry the role claims can
\* produce, any set of sockets that have left OPEN, and a session created at 0 by a
\* payload play-request for which no report has arrived when the poll of 5700 ms
\* is due (the last poll before the one that passes the safety margin)
RoleMaps == [Peers -> {"undefined", "true", "false"}]

InitDispatch ==
  /\ clients = Peers
  /\ closing \in SUBSET Peers
  /\ closed = {}
  /\ isHost \in RoleMaps
  /\ deviceName = [p \in Peers |-> IF isHost[p] = "false" THEN "kitchen"
                                    ELSE "undefined"]
  /\ hostClient \in {NullPeer} \cup Peers
  /\ IF hostClient = NullPeer THEN \A p \in Peers : isHost[p] # "true"
                              ELSE isHost[hostClient] # "undefined"
  /\ readyClients = {}
  /\ clientDecodingTimes = <<>>
  /\ activePlayback = Some([id |-> ToString(0), startTime |-> LongLead,
                            clientSyncStates |-> <<>>, startedAt |-> NullTime])
  /\ syncCheckTimer = NullTimer
  /\ currentMP3Data = Some([data |-> "songA", length |-> 4096])
  /\ now = StartDelay + 11 * PollInterval
  /\ timers = {Timer(1, "waitForSync", now, ToString(0), LongLead, 0)}
  /\ crashed = FALSE
  /\ sent = <<>>
  /\ last = [op |-> "tick"]
  /\ budget = MaxDispatchEvents
  /\ hist = [joins |-> <<>>, hostInbox |-> <<>>, retired |-> {},
             host |-> IF hostClient # NullPeer /\ isHost[hostClient] = "true"
                      THEN hostClient ELSE NullPeer,
             ready |-> {}, ended |-> {}, samples |-> <<>>,
             reported |-> {}]

NextDispatch ==
  \/ \E p \in Peers : Stop(p)
  \/ \E p \in Peers, c \in ClientIds, i \in PlaybackIdInputs : ClientReady(p, c, i)
  \/ \E t \in timers : WaitForSyncFire(t)
  \/ Tick(MaxTime)

SpecDispatch == InitDispatch /\ [][NextDispatch]_vars

\* the drift monitor's decision alone: a Playing session (host 1, listener 2,
\* dispatched at 700 ms) whose response window is about to end, for every map of
\* reported samples over three client ids
DriftClientIds == {"c1", "c2", "c3"}
DriftInputs == {0 - 20, 10, 50, 210, 300}
SyncStateInputs == {ReadyState} \cup {DriftState(d) : d \in DriftInputs}
SampleMaps ==
  UNION {[ids -> SyncStateInputs] : ids \in SUBSET DriftClientIds}

InitDrift ==
  /\ clients = {1, 2}
  /\ closing = {}
  /\ closed = {}
  /\ isHost = [p \in Peers |-> IF p = 1 THEN "true" ELSE IF p = 2 THEN "false"
                                ELSE "undefined"]
  /\ deviceName = [p \in Peers |-> IF p = 2 THEN "kitchen" ELSE "undefined"]
  /\ hostClient = 1
  /\ readyClients = {"c1"}
  /\ clientDecodingTimes = <<>>
  /\ \E m \in SampleMaps :
       activePlayback = Some([id |-> ToString(0), startTime |-> LongLead,
                              clientSyncStates |-> m,
                              startedAt |-> StartDelay + PollInterval])
  /\ syncCheckTimer = 1
  /\ currentMP3Data = Some([data |-> "songA", length |-> 4096])
  /\ now = StartDelay + PollInterval + SyncCheckPeriod + ResponseWindow
  /\ timers = {Timer(2, "driftResponse", now, ToString(0), 0, SyncCheckPeriod)}
  /\ crashed = FALSE
  /\ sent = <<>>
  /\ last = [op |-> "tick"]
  /\ budget = 0
  /\ hist = [joins |-> <<>>, hostInbox |-> <<>>, retired |-> {}, host |-> 1,
             ready |-> {}, ended |-> {}, samples |-> <<>>,
             reported |-> {}]

NextDrift == \E t \in timers : DriftResponseFire(t)

SpecDrift == InitDrift /\ [][NextDrift]_vars

\* the drift monitor over two cycles: a Playing session (host 1, listener 2 whose
\* client-ready made the poll of 700 ms dispatch) when its first drift cycle is due
CycleClientIds == {"c1", "c2"}
CycleDrifts == {50, 300}

InitCycles ==
  /\ clients = {1, 2}
  /\ closing = {}
  /\ closed = {}
  /\ isHost = [p \in Peers |-> IF p = 1 THEN "true" ELSE IF p = 2 THEN "false"
                                ELSE "undefined"]
  /\ deviceName = [p \in Peers |-> IF p = 2 THEN "kitchen" ELSE "undefined"]
  /\ hostClient = 1
  /\ readyClients = {"c1"}
  /\ clientDecodingTimes = <<>>
  /\ activePlayback = Some([id |-> ToString(0), startTime |-> LongLead,
                            clientSyncStates |-> [c \in {"c1"} |-> ReadyState],
                            startedAt |-> StartDelay + PollInterval])
  /\ syncCheckTimer = 1
  /\ currentMP3Data = Some([data |-> "songA", length |-> 4096])
  /\ now = StartDelay + PollInterval + SyncCheckPeriod
  /\ timers = {Timer(1, "checkPlaybackSync", now, ToString(0), 0, 0)}
  /\ crashed = FALSE
  /\ sent = <<>>
  /\ last = [op |-> "tick"]
  /\ budget = MaxCycleEvents
  /\ hist = [joins |-> <<>>, hostInbox |-> <<>>, retired |-> {}, host |-> 1,
             ready |-> {2}, ended |-> {}, samples |-> <<>>,
             reported |-> {}]

NextCycles ==
  \/ \E c \in CycleClientIds, i \in PlaybackIdInputs, d \in CycleDrifts :
        PlaybackStatus(2, c, i, d)
  \/ \E t \in timers : CheckPlaybackSyncFire(t)
  \/ \E t \in timers : DriftResponseFire(t)
  \/ Tick(MaxCycleTime)

SpecCycles == InitCycles /\ [][NextCycles]_vars

\* the same Playing session when play-requests and stop-requests of the host and
\* readiness reports of the listener arrive while its drift monitor runs
NextChains ==
  \/ \E m \in PayloadInputs : Play(1, m)
  \/ Stop(1)
  \/ \E c \in ClientIds, i \in PlaybackIdInputs : ClientReady(2, c, i)
  \/ \E t \in timers : StartDelayFire(t)
  \/ \E t \in timers : WaitForSyncFire(t)
  \/ \E t \in timers : CheckPlaybackSyncFire(t)
  \/ \E t \in timers : DriftResponseFire(t)
  \/ Tick(MaxTime)

SpecChains == InitCycles /\ [][NextChains]_vars

(***************************************************************************)
(* Claims                                                                  *)
(***************************************************************************)
HostRolePeers == {p \in clients : isHost[p] = "true"}
Listeners == {p \in clients : isHost[p] = "false"}
MsgTypes(out) == {out[i].msg.type : i \in 1..Len(out)}
Recipients(out) == {out[i].to : i \in 1..Len(out)}

\* C1: at most one connected peer holds the Host role (is skipped by host-excluding
\* broadcasts), and a host role-claim sends a message to nobody but the claimant.
C1_SingleHost ==
  /\ Cardinality(HostRolePeers) <= 1
  /\ (last.op = "host" => Recipients(sent) \subseteq {last.peer})

PlayCommandsIn(out) == SelectSeq(out, LAMBDA m : m.msg.type = "play")
Awaiting == activePlayback # Null /\ activePlayback[1].startedAt = NullTime
\* the clock reading at which the active session was created (its id)
CreatedAt == activePlayback[1].id.str

\* C3: a play-request without payload broadcasts a play message scheduled 1000 ms
\* after receipt and starts no session and no timer; one with a payload creates a
\* session whose provisional scheduled start is 8000 ms after receipt.
C3_Leads ==
  [][(budget' # budget /\ last'.op = "play")
       => IF HasPayload(last'.mp3Data)
          THEN /\ activePlayback' # Null
               /\ activePlayback'[1].startTime = now + 8000
               /\ activePlayback'[1].startedAt = NullTime
               /\ \E t \in timers' \ timers :
                    t.kind = "startDelay" /\ t.scheduledTime = now + 8000
               /\ MsgTypes(sent') \subseteq {"sync-verification"}
          ELSE /\ \A i \in 1..Len(sent') :
                    /\ sent'[i].msg.type = "play"
                    /\ sent'[i].msg.scheduledTime = now + 1000
               /\ Recipients(sent') = {c \in clients : IsOpen(c) /\ isHost[c] # "true"}
               /\ UNCHANGED <<timers, activePlayback, syncCheckTimer>>]_vars

\* a test tone was broadcast to a peer at a clock reading other than zero
C3_Witness ==
  /\ last.op = "play" /\ ~HasPayload(last.mp3Data)
  /\ now > 0
  /\ Len(sent) > 0
  /\ sent[1].msg.scheduledTime = now + 1000

\* C4 as claimed: with a listener connected and no readiness report, a session is
\* never still awaiting readiness more than 8000 - 2000 = 6000 ms after its creation.
C4_WithinLeadMinusMargin ==
  (Awaiting /\ Listeners # {} /\ readyClients = {})
    => now - CreatedAt <= LongLead - SafetyMargin

\* C4 as amended: a session is never still awaiting readiness more than 6200 ms
\* after its creation (the 200 ms start delay and twelve 500 ms polls: the first
\* poll at which the clock has passed scheduled start - 2000).
C4_WithinFirstPollAfterMargin ==
  Awaiting => now - CreatedAt <= 6200

\* the poll at 6200 ms dispatched the play-command with no readiness report received
C4_Witness ==
  /\ last.op = "waitForSync"
  /\ activePlayback # Null
  /\ activePlayback[1].startedAt - CreatedAt = 6200
  /\ readyClients = {}
  /\ Listeners # {}
  /\ Len(PlayCommandsIn(sent)) > 0

RECURSIVE SumOver(_, _)
SumOver(f, S) ==
  IF S = {} THEN 0
  ELSE LET c == CHOOSE x \in S : TRUE IN f[c].drift + SumOver(f, S \ {c})

\* the rule of the specification over the samples actually reported
RuleOverReported(states) ==
  LET rep == {c \in DOMAIN states : states[c].hasDrift}
      ds == {states[c].drift : c \in rep}
      hi == CHOOSE v \in ds : \A w \in ds : v >= w
      lo == CHOOSE v \in ds : \A w \in ds : v <= w
  IN /\ rep # {}
     /\ \/ Abs(SumOver(states, rep)) > 100 * Cardinality(rep)
        \/ hi - lo > 200

\* C5: at the end of a response window a drift-correction is broadcast if and only
\* if |mean| > 0.1 s or max - min > 0.2 s over the samples of the peers that reported.
C5_CorrectionIffRule ==
  (last.op = "driftResponse" /\ activePlayback # Null /\ Listeners # {})
    => (("drift-correction" \in MsgTypes(sent))
          <=> RuleOverReported(activePlayback[1].clientSyncStates))

TimerOps == {"startDelay", "waitForSync", "checkPlaybackSync", "driftResponse"}

\* C6: after a stop-request from the host there is no active session and no timer
\* of the stopped session is pending (start delay, readiness poll, drift cycle,
\* response window);
\* a timer callback that runs with no active session sends nothing and ends normally.
C6_StopCancelsTimers ==
  /\ (last.op = "stop" /\ last.session # Null /\ hostClient = last.peer)
       => /\ activePlayback = Null
          /\ \A t \in timers :
               /\ t.kind \in {"startDelay", "waitForSync"} => t.playbackId # last.session[1]
               /\ t.kind \notin {"checkPlaybackSync", "driftResponse"}
  /\ (last.op \in TimerOps /\ activePlayback = Null) => (sent = <<>> /\ ~crashed)

\* C7: a position-report that quotes the id of a session which a payload play-request
\* replaced while it was Playing is not recorded.
C7_NoStaleSamples ==
  [][(budget' # budget /\ last'.op = "playback-status"
        /\ last'.playbackId \in hist.retired)
       => activePlayback' = activePlayback]_vars

\* C8: every timer callback completes without an uncaught error.
C8_TimerCallbacksComplete == last.op \in TimerOps => ~crashed

IsTiny(mp3Data) == HasPayload(mp3Data) /\ mp3Data[1].length < 100

\* C9: a host's play-request whose payload is shorter than 100 leaves no active
\* session, and while such a payload is the stored one no play-command or
\* host-activation is sent.
C9_TinyPayloadAborts ==
  /\ (last.op = "play" /\ IsTiny(last.mp3Data) /\ hostClient = last.peer)
       => activePlayback = Null
  /\ IsTiny(currentMP3Data)
       => \A i \in 1..Len(sent) :
            ~(sent[i].msg.type = "host-play"
              \/ (sent[i].msg.type = "play" /\ "mp3Data" \in DOMAIN sent[i].msg))

\* C10: a play-request or stop-request from a peer that does not hold the Host role
\* sends nothing and changes neither the session, its maps, nor any timer.
C10_OnlyHostControls ==
  [][(budget' # budget /\ last'.op \in {"play", "stop"}
        /\ ~(hostClient = last'.peer /\ isHost[last'.peer] = "true"))
       => /\ sent' = <<>>
          /\ UNCHANGED <<activePlayback, currentMP3Data, readyClients,
                         clientDecodingTimes, timers, syncCheckTimer>>]_vars

\* C11: a disconnect removes the peer from the registry; if the peer held the Host
\* role the host reference is cleared; if it was a Listener and a live Host is
\* present, exactly one message is sent, a client-left to the Host carrying the
\* listener's deviceName; the disconnect of an Unassigned peer sends nothing.
C11_DisconnectEffects ==
  [][(budget' # budget /\ last'.op = "close")
       => LET p == last'.peer
              hostPresent == hist.host \notin {NullPeer, p} /\ IsOpen(hist.host)
          IN /\ p \notin clients'
             /\ hist.host = p => hostClient' = NullPeer
             /\ (isHost[p] = "false" /\ hist.host # p /\ hostPresent)
                  => sent' = <<Msg(hist.host, [type |-> "client-left",
                                               deviceName |-> deviceName[p]])>>
             /\ (isHost[p] # "false" /\ hist.host # p) => sent' = <<>>]_vars

\* C12: the host-confirmed reply carries the number of peers holding the Listener role.
C12_ConfirmedListenerCount ==
  last.op = "host"
    => /\ Len(sent) = 1
       /\ sent[1].msg.type = "host-confirmed"
       /\ sent[1].msg.clientCount = Cardinality(Listeners)

LiveListeners == {p \in Listeners : IsOpen(p)}
HostExcludingTypes ==
  {"sync-verification", "stop", "request-playback-status", "drift-correction",
   "prepare-audio", "clock-sync"}
HostExcluding(out) == SelectSeq(out, LAMBDA m : m.msg.type \in HostExcludingTypes)
Untargeted == ~(last.op = "clock-sync" /\ last.targeted)

\* C13: a host-excluding broadcast (prepare, stop, status-request, drift-correction,
\* untargeted clock-probe) reaches exactly the live peers whose role is Listener.
C13_BroadcastReachesListeners ==
  /\ (Untargeted /\ HostExcluding(sent) # <<>>)
       => Recipients(HostExcluding(sent)) = LiveListeners
  /\ (last.op \in {"stop", "prepare-audio"}
        \/ (last.op = "clock-sync" /\ ~last.targeted)
        \/ (last.op = "play" /\ HasPayload(last.mp3Data)))
       => LiveListeners \subseteq Recipients(HostExcluding(sent))

\* C14: a readiness-report or position-report quoting an id that is not the active
\* session's (or any report while no session is active) changes neither the
\* readiness set, the decode-latency samples nor the session's samples.
C14_StaleReportsIgnored ==
  [][(/\ budget' # budget
      /\ \/ /\ last'.op = "client-ready"
            /\ (activePlayback = Null \/ last'.playId # activePlayback[1].id)
         \/ /\ last'.op = "playback-status"
            /\ (activePlayback = Null \/ last'.playbackId # activePlayback[1].id)
         \/ /\ last'.op = "decoding-stats"
            /\ activePlayback = Null)
       => UNCHANGED <<readyClients, clientDecodingTimes, activePlayback>>]_vars

\* C15: a message that cannot be parsed, or whose type has no case, is discarded:
\* registry, host reference, session, maps and timers are unchanged, nothing is
\* sent, and the handler ends normally.
C15_DiscardChangesNothing ==
  [][(budget' # budget /\ last'.op = "discard")
       => /\ sent' = <<>>
          /\ ~crashed'
          /\ UNCHANGED <<clients, closing, closed, isHost, deviceName, hostClient,
                         activePlayback, readyClients, clientDecodingTimes,
                         currentMP3Data, timers, syncCheckTimer>>]_vars

\* an unparseable text was discarded while a session with a pending timer existed
C15_Witness ==
  /\ last.op = "discard"
  /\ last.raw = "{not json"
  /\ hostClient # NullPeer
  /\ activePlayback # Null
  /\ timers # {}

\* C16: when the poll dispatches (it proceeds with a valid payload), every live
\* Listener is sent exactly one play-command whatever the state of the other
\* sockets, the host-activation is sent to an open host, the drift monitor is
\* started and the callback ends normally; a stop broadcast likewise reaches
\* every live Listener.
C16_DispatchIsolated ==
  /\ (last.op = "waitForSync" /\ activePlayback # Null
        /\ activePlayback[1].startedAt = now /\ ~PayloadLost)
       => /\ \A p \in LiveListeners :
               Len(SelectSeq(PlayCommandsIn(sent), LAMBDA m : m.to = p)) = 1
          /\ (hostClient # NullPeer /\ IsOpen(hostClient))
               => \E i \in 1..Len(sent) :
                    sent[i].to = hostClient /\ sent[i].msg.type = "host-play"
          /\ \E t \in timers : t.id = syncCheckTimer /\ t.kind = "checkPlaybackSync"
          /\ ~crashed
  /\ last.op = "stop" => (LiveListeners \subseteq Recipients(sent) /\ ~crashed)

\* a dispatch with an open host in which a Listener whose socket had left OPEN
\* precedes, in iteration order, a live Listener that was sent the play-command
C16_Witness ==
  /\ last.op = "waitForSync"
  /\ activePlayback # Null /\ activePlayback[1].startedAt = now
  /\ hostClient # NullPeer /\ IsOpen(hostClient)
  /\ \E a \in closing \cap Listeners, b \in LiveListeners :
       /\ a < b
       /\ \E i \in 1..Len(sent) : sent[i].to = b /\ sent[i].msg.type = "play"

\* C18: the poll dispatches only when every connected Listener has itself sent a
\* readiness-report for the active session, or the clock is within the 2 s safety
\* margin of the session's provisional scheduled start.
C18_QuorumOrDeadline ==
  [][(last'.op = "waitForSync" /\ activePlayback # Null
        /\ activePlayback[1].startedAt = NullTime
        /\ activePlayback' # activePlayback)
       => \/ Listeners \subseteq hist.ready
          \/ now >= activePlayback[1].startTime - SafetyMargin]_vars

\* C19: a start-delay or readiness-poll timer of a session that a newer session
\* has replaced changes nothing of the newer session, sends nothing and does not
\* start the drift monitor.
C19_SupersededTimersInert ==
  [][last'.op \in {"startDelay", "waitForSync"}
       => \A t \in timers \ timers' :
            (/\ t.kind \in {"startDelay", "waitForSync"}
             /\ activePlayback # Null
             /\ t.playbackId # activePlayback[1].id)
              => /\ activePlayback' = activePlayback
                 /\ sent' = <<>>
                 /\ syncCheckTimer' = syncCheckTimer]_vars

\* C20: after a play-request, with or without payload, was handled while a session
\* was active, the drift monitor sends no status-request and no drift-correction
\* carrying that earlier session's id.
C20_NoMonitorForEndedSession ==
  \A i \in 1..Len(sent) :
    sent[i].msg.type \in {"request-playback-status", "drift-correction"}
      => sent[i].msg.playbackId \notin hist.ended

\* the live peers that do not hold the Host role: every open peer but the latest
\* host claimant (a displaced host is Unassigned, a host that joined is a Listener)
NonHostPeers == {p \in clients : IsOpen(p) /\ p # hist.host}

\* C17: a targeted clock-probe reaches exactly one peer whenever a live non-host
\* peer exists, that peer is not the Host, and nobody else receives it; an
\* untargeted clock-probe reaches every live Listener.
C17_ProbeRouting ==
  last.op = "clock-sync"
    => IF last.targeted
       THEN /\ NonHostPeers # {} => Len(sent) = 1
            /\ Recipients(sent) \subseteq NonHostPeers
       ELSE LiveListeners \subseteq Recipients(sent)

\* the largest decode-latency sample reported since the session was created
LargestSample ==
  LET vals == {hist.samples[c] : c \in DOMAIN hist.samples}
  IN IF vals = {} THEN 0 ELSE CHOOSE v \in vals : \A w \in vals : v >= w

\* C21: at dispatch the final scheduled start is the provisional one plus
\* min(3000, max(0, D - 2000)), D the largest decode-latency sample reported for
\* the session (0 when none); the play-commands and the host-activation carry it.
C21_DecodeBuffer ==
  [][(/\ last'.op \in {"startDelay", "waitForSync"}
      /\ activePlayback # Null /\ activePlayback[1].startedAt = NullTime
      /\ activePlayback' # Null /\ activePlayback'[1].startedAt # NullTime)
       => LET final == activePlayback[1].startTime
                         + Min(3000, Max(0, LargestSample - 2000))
          IN /\ activePlayback'[1].startTime = final
             /\ \A i \in 1..Len(sent') :
                  sent'[i].msg.type \in {"play", "host-play"}
                    => sent'[i].msg.scheduledTime = final]_vars

\* the entries of the session's sample map written during the current cycle
CycleSamples ==
  [c \in DOMAIN activePlayback[1].clientSyncStates \cap hist.reported |->
     activePlayback[1].clientSyncStates[c]]

\* C22: the decision at the end of a response window is the one the samples
\* reported since that cycle's status-request give: a sample of an earlier cycle
\* whose peer did not report again takes no part in the mean or the spread.
C22_CycleSamplesOnly ==
  (last.op = "driftResponse" /\ activePlayback # Null /\ LiveListeners # {})
    => /\ ("drift-correction" \in MsgTypes(sent)) <=> NeedsCorrection(CycleSamples)
       /\ \A i \in 1..Len(sent) :
            sent[i].msg.type = "drift-correction"
              => sent[i].msg.avgDrift = <<DriftStats(CycleSamples).totalDrift,
                                         DriftStats(CycleSamples).clientCount>>

MonitorPending == \E t \in timers : t.kind \in {"checkPlaybackSync", "driftResponse"}

\* C23: a session that has entered Playing, and is neither stopped nor replaced,
\* has the drift monitor running: a drift-cycle or response-window timer comes to
\* be pending, also when the session was activated with no listener connected.
C23_MonitorRuns ==
  (IsPlaying(activePlayback) /\ ~crashed)
    ~> (MonitorPending \/ ~IsPlaying(activePlayback) \/ crashed)

\* the ids of earlier sessions the state still knows: the active session, the
\* sessions whose start-delay or poll timer is pending, the sessions replaced
EarlierIds ==
  (IF activePlayback = Null THEN {} ELSE {activePlayback[1].id})
    \cup {t.playbackId : t \in {x \in timers : x.kind \in {"startDelay", "waitForSync"}}}
    \cup hist.retired \cup hist.ended

\* C24: every payload play-request gives its session an id strictly greater than
\* the id of every earlier session, also at an unchanged clock reading, and
\* leaves the readiness and decode-latency maps empty.
C24_FreshSessionId ==
  [][(budget' # budget /\ last'.op = "play" /\ HasPayload(last'.mp3Data))
       => /\ activePlayback' # Null
          /\ \A i \in EarlierIds : activePlayback'[1].id.str > i.str
          /\ readyClients' = {}
          /\ clientDecodingTimes' = <<>>]_vars

IsDispatch == last.op \in {"startDelay", "waitForSync"}

\* C25: in a dispatch the host-activation carries the session id and the final
\* scheduled start of the play-commands of that dispatch, and no payload; a
\* play-command with session id S carries the payload of the play-request that
\* created S.
C25_DispatchConsistent ==
  IsDispatch
    => \A i \in 1..Len(sent) :
         /\ sent[i].msg.type = "host-play"
              => /\ "mp3Data" \notin DOMAIN sent[i].msg
                 /\ \A j \in 1..Len(sent) :
                      sent[j].msg.type = "play"
                        => /\ sent[j].msg.playbackId = sent[i].msg.playbackId
                           /\ sent[j].msg.scheduledTime = sent[i].msg.scheduledTime
         /\ sent[i].msg.type = "play"
              => sent[i].msg.mp3Data = Some(PayloadAt(sent[i].msg.playbackId.str))

\* C26: right after a stop-request there is no active session, the stored payload
\* is null, the readiness and decode-latency maps are empty and no drift-monitor
\* timer is pending.
C26_StopClearsSession ==
  last.op = "stop"
    => /\ activePlayback = Null
       /\ currentMP3Data = Null
       /\ readyClients = {}
       /\ clientDecodingTimes = <<>>
       /\ ~MonitorPending

\* C27: the host reference is null or refers to a connected peer whose own role
\* flag is Host.
C27_NoDanglingHost ==
  hostClient # NullPeer => (hostClient \in clients /\ isHost[hostClient] = "true")

\* C28: the disconnect of a peer other than the one the host reference refers to
\* leaves the host reference unchanged.
C28_OtherDisconnectKeepsHost ==
  [][(budget' # budget /\ last'.op = "close" /\ last'.peer # hostClient)
       => hostClient' = hostClient]_vars

MonitorTimers == {t \in timers : t.kind \in {"checkPlaybackSync", "driftResponse"}}

\* C29: at most one drift-cycle timer or response-window timer is pending at any
\* time, whatever the interleaving of play-requests, stop-requests and timers.
C29_SingleMonitorChain == Cardinality(MonitorTimers) <= 1

====
